---------------------------- MODULE Spec2Model ----------------------------
(***************************************************************************)
(* Model of the leave-one-out evaluator of src/analysis.ipynb:             *)
(*   loocv_regression(data, my_ratings, model=Ridge(alpha=100), fill=2)    *)
(*   evaluate(predictions, my_ratings)                                     *)
(*                                                                         *)
(* A data frame is a sequence of rows; a row is a record whose field       *)
(* `album` is the index label.  The feature frame has one feature column   *)
(* `u1` (one peer rater), the target frame the column `SCORE`, the result  *)
(* frame the column `prediction`.  Index labels are unique within a frame. *)
(*                                                                         *)
(* The estimator is library code: fit and predict are modelled by what     *)
(* the notebook relies on.  A fitted estimator is described by the set of  *)
(* entities whose rows its coefficients were computed from; the number     *)
(* predict returns is any value of PredValues; fit and predict may raise.  *)
(***************************************************************************)
EXTENDS Integers, Sequences, FiniteSets, TLC

\* ------------------------------------------------------------------ bounds

\* Number of distinct albums the frames draw their index labels from.
MaxKeys == 3

Keys == 1..MaxKeys

\* The marker of a missing feature entry (numpy NaN), replaced by fillna.
NaN == -1

\* The default of the parameter `fill`.
DefaultFill == 2

\* Values the caller passes as `fill`.
Fills == {DefaultFill, 0}

\* Feature entries of the caller's frame: missing, or a peer rating.
Cells == {NaN, 1}

\* SCORE columns of the caller's target frame, by album: a constant column
\* (zero variance) and a column with a different score per album.
ScoreTables == {[k \in Keys |-> 3], [k \in Keys |-> k]}

\* Values predict may return.
PredValues == {1, 2}

\* Values of the frames handed to evaluate on its own.
EvalPredValues == {1, 2, 3}
EvalScoreValues == {1, 3}

\* ----------------------------------------------------------- frame helpers

RECURSIVE Asc(_)
\* The labels of S in ascending order (a frame after sort_index()).
Asc(S) ==
  IF S = {} THEN <<>>
  ELSE LET m == CHOOSE x \in S : \A z \in S : x <= z
       IN <<m>> \o Asc(S \ {m})

Reverse(s) == [j \in 1..Len(s) |-> s[Len(s) + 1 - j]]

\* Index orders of the input frames: every subset of Keys, ascending or
\* descending.
KeySeqs == {Asc(S) : S \in SUBSET Keys} \cup {Reverse(Asc(S)) : S \in SUBSET Keys}

\* df.index
Index(df) == [j \in 1..Len(df) |-> df[j].album]

KeySet(df) == {df[j].album : j \in 1..Len(df)}

\* Feature frames the caller may hold.
FeatureFrames ==
  UNION {{[j \in 1..Len(ks) |-> [album |-> ks[j], u1 |-> c[j]]] :
            c \in [1..Len(ks) -> Cells]} : ks \in KeySeqs}

\* Target frames the caller may hold.
TargetFrames ==
  {[j \in 1..Len(ks) |-> [album |-> ks[j], SCORE |-> t[ks[j]]]] :
     ks \in KeySeqs, t \in ScoreTables}

\* ------------------------------------------------------------ pandas calls

\* data.fillna(fill): a new frame, missing entries replaced by `value`.
Fillna(df, value) ==
  [j \in 1..Len(df) |-> [df[j] EXCEPT !.u1 = IF @ = NaN THEN value ELSE @]]

\* Mutant of LocRaises: labels without a row are skipped (reindex-like).
LocRaises_Silent(df, labels) == FALSE

\* df.loc[labels] raises KeyError when a label has no row in df.
LocRaises(df, labels) ==
  \E j \in 1..Len(labels) : labels[j] \notin KeySet(df)

\* Mutant of Loc: the rows keep the order of df (a boolean mask such as
\* df[df.index.isin(labels)]).
Loc_FrameOrder(df, labels) ==
  SelectSeq(df, LAMBDA r : \E j \in 1..Len(labels) : labels[j] = r.album)

RECURSIVE Loc(_, _)
\* df.loc[labels]: the rows of df for each label, in the order of `labels`.
Loc(df, labels) ==
  IF labels = <<>> THEN <<>>
  ELSE SelectSeq(df, LAMBDA r : r.album = Head(labels)) \o Loc(df, Tail(labels))

\* Mutant of Drop: the held-out row is kept.
Drop_Nothing(df, label) == df

\* df.drop(label): a new frame without the rows labelled `label`.
Drop(df, label) == SelectSeq(df, LAMBDA r : r.album # label)

\* Mutant of IterRows: the loop stops one row early.
IterRows_SkipLast(df) == SubSeq(df, 1, Len(df) - 1)

\* my_ratings.iterrows(): the rows the for loop visits, in order.
IterRows(df) == df

RECURSIVE InsertDesc(_, _)
\* Insert row r after every row whose prediction is >= its own.
InsertDesc(s, r) ==
  IF s = <<>> THEN <<r>>
  ELSE IF Head(s).prediction >= r.prediction
       THEN <<Head(s)>> \o InsertDesc(Tail(s), r)
       ELSE <<r>> \o s

RECURSIVE SortValues(_)
\* df.sort_values("prediction", ascending=False): ties keep their order.
SortValues(df) ==
  IF df = <<>> THEN <<>>
  ELSE InsertDesc(SortValues(SubSeq(df, 1, Len(df) - 1)), df[Len(df)])

\* pd.DataFrame({"album": albums, "prediction": predictions})
ResultFrame(as, ps) ==
  [j \in 1..Len(as) |-> [album |-> as[j], prediction |-> ps[j]]]

\* --------------------------------------------------------------- estimator

\* The estimator objects a call can bind to `model`: "default" is the one
\* Ridge(alpha=100) built when the def statement runs and shared by every
\* call that passes no model; "passed" is an estimator the caller builds
\* for the call with warm_start=True, whose fit continues from its fitted
\* state.
ModelIds == {"default", "passed"}

\* An estimator as constructed: unfitted.
NewModel(kind) == [kind |-> kind, fitted |-> FALSE, seen |-> {}]

NewModels == [m \in ModelIds |-> NewModel(IF m = "default" THEN "refit" ELSE "warm")]

\* model.fit(X, y) on estimator object mo: the fitted state afterwards.
Fit(mo, X, y) ==
  [mo EXCEPT !.fitted = TRUE,
             !.seen = IF mo.kind = "refit" THEN KeySet(X) ELSE @ \cup KeySet(X)]

\* model.fit(X, y) rejects a frame with no row (scikit-learn input check).
FitMustRaise(X) == Len(X) = 0


\* ------------------------------------------------------------- the metrics

\* Mutant of Concat: the columns are put side by side by position (as after
\* reset_index, or with bare arrays), not joined on the index.
Concat_Positional(predictions, ratings) ==
  LET n == IF Len(predictions) >= Len(ratings) THEN Len(predictions) ELSE Len(ratings)
  IN [j \in 1..n |->
        [album |-> IF j <= Len(predictions) THEN predictions[j].album ELSE ratings[j].album,
         prediction |-> IF j <= Len(predictions) THEN predictions[j].prediction ELSE NaN,
         SCORE |-> IF j <= Len(ratings) THEN ratings[j].SCORE ELSE NaN]]

\* pd.concat([predictions, my_ratings], axis=1): outer join on the index;
\* a label one frame lacks gets NaN in that frame's column.
Concat(predictions, ratings) ==
  LET extra == SelectSeq(Index(ratings), LAMBDA k : k \notin KeySet(predictions))
      labels == Index(predictions) \o extra
      pOf(k) == IF k \in KeySet(predictions)
                THEN (CHOOSE r \in {predictions[j] : j \in 1..Len(predictions)} :
                        r.album = k).prediction
                ELSE NaN
      sOf(k) == IF k \in KeySet(ratings)
                THEN (CHOOSE r \in {ratings[j] : j \in 1..Len(ratings)} :
                        r.album = k).SCORE
                ELSE NaN
  IN [j \in 1..Len(labels) |->
        [album |-> labels[j], prediction |-> pOf(labels[j]), SCORE |-> sOf(labels[j])]]

RECURSIVE SumSeq(_)
SumSeq(s) == IF s = <<>> THEN 0 ELSE Head(s) + SumSeq(Tail(s))

\* Sum of squared residuals of the joined frame.
SsRes(df) == SumSeq([j \in 1..Len(df) |-> (df[j].SCORE - df[j].prediction) * (df[j].SCORE - df[j].prediction)])

\* n times the sum of squared deviations of SCORE from its mean
\* (n * sum(y^2) - sum(y)^2, an integer).
SsTotN(df) ==
  Len(df) * SumSeq([j \in 1..Len(df) |-> df[j].SCORE * df[j].SCORE])
    - SumSeq([j \in 1..Len(df) |-> df[j].SCORE]) * SumSeq([j \in 1..Len(df) |-> df[j].SCORE])

\* The metric functions reject an empty column and a column holding NaN.
MetricRaises(df) ==
  \/ Len(df) = 0
  \/ \E j \in 1..Len(df) : df[j].SCORE = NaN \/ df[j].prediction = NaN

\* A float result: a number in thousandths, or NaN.
Float(v) == [nan |-> FALSE, val |-> v]
FloatNaN == [nan |-> TRUE, val |-> 0]

\* r2_score(df.SCORE, df.prediction), in thousandths: NaN below two samples;
\* with a constant SCORE column 1.0 for exact predictions and 0.0 otherwise;
\* else 1 - ss_res / ss_tot.
R2Score(df) ==
  IF Len(df) < 2 THEN FloatNaN
  ELSE IF SsTotN(df) = 0
       THEN (IF SsRes(df) = 0 THEN Float(1000) ELSE Float(0))
       ELSE Float(1000 - ((SsRes(df) * Len(df) * 1000) \div SsTotN(df)))

RECURSIVE SqrtBetween(_, _, _)
\* The largest r in lo..hi with r * r <= x (lo * lo <= x < (hi + 1)^2).
SqrtBetween(x, lo, hi) ==
  IF lo = hi THEN lo
  ELSE LET mid == (lo + hi + 1) \div 2
       IN IF mid * mid <= x THEN SqrtBetween(x, mid, hi)
          ELSE SqrtBetween(x, lo, mid - 1)

\* The integer square root; 46340 is the largest root of a 32-bit product.
Sqrt(x) == SqrtBetween(x, 0, IF x > 46340 THEN 46340 ELSE x)

\* Mutant of Rmse: the residuals are averaged without being squared.
Rmse_Unsquared(df) ==
  LET e == SumSeq([j \in 1..Len(df) |-> df[j].SCORE - df[j].prediction])
  IN Sqrt(((IF e < 0 THEN -e ELSE e) * 1000000) \div Len(df))

\* mean_squared_error(df.SCORE, df.prediction, squared=False), in thousandths.
Rmse(df) == Sqrt((SsRes(df) * 1000000) \div Len(df))

\* ------------------------------------------------------------------- state

VARIABLES
  data,           \* the caller's feature frame
  my_ratings,     \* the caller's target frame
  models,         \* the estimator objects, by ModelIds
  entry,          \* what the caller held when the current call began
  pc,             \* "idle", "loop", "returned", "raised"
  arg_model,      \* the estimator object bound to parameter `model`
  fill,           \* parameter `fill`
  data_f,         \* local data_f
  i,              \* local i
  albums,         \* local albums
  predictions,    \* local predictions
  X,              \* local X of the last fold
  y,              \* local y of the last fold
  row_df,         \* local row_df of the last fold
  result,         \* the frame the call returned
  err,            \* the exception that left the call
  ev_pc,          \* evaluate: "idle", "returned", "raised"
  ev_predictions, \* evaluate's argument `predictions`
  ev_ratings,     \* evaluate's argument `my_ratings`
  r2,             \* evaluate's first result
  rmse,           \* evaluate's second result
  cell            \* the notebook cell a top-to-bottom run is at

caller == <<data, my_ratings, models>>
frame == <<entry, pc, arg_model, fill, data_f, i, albums, predictions, X, y, row_df, result, err>>
evals == <<ev_pc, ev_predictions, ev_ratings, r2, rmse>>
vars == <<caller, frame, evals, cell>>

NoError == "none"

\* No call of loocv_regression has been made.
FrameIdle ==
  /\ entry = [data |-> data, my_ratings |-> my_ratings, models |-> models]
  /\ pc = "idle"
  /\ arg_model = "default"
  /\ fill = DefaultFill
  /\ data_f = <<>>
  /\ i = 1
  /\ albums = <<>>
  /\ predictions = <<>>
  /\ X = <<>>
  /\ y = <<>>
  /\ row_df = <<>>
  /\ result = <<>>
  /\ err = NoError

\* No call of evaluate has been made.
EvalIdle ==
  /\ ev_pc = "idle"
  /\ r2 = FloatNaN
  /\ rmse = 0

\* The notebook holds its frames and the estimators are unfitted.
Init ==
  /\ data \in FeatureFrames
  /\ my_ratings \in TargetFrames
  /\ models = NewModels
  /\ FrameIdle
  /\ EvalIdle
  /\ ev_predictions = <<>>
  /\ ev_ratings = <<>>
  /\ cell = "none"

\* -------------------------------------------------------- loocv_regression

\* Entry of loocv_regression(data, my_ratings, model, fill) up to the loop.
Call(m, f) ==
  /\ pc \in {"idle", "returned", "raised"}
  /\ models' = [models EXCEPT !["passed"] = NewModel("warm")]
  /\ entry' = [data |-> data, my_ratings |-> my_ratings, models |-> models']
  /\ pc' = "loop"
  /\ arg_model' = m
  /\ fill' = f
  /\ data_f' = Fillna(data, f)
  /\ i' = 1
  /\ albums' = <<>>
  /\ predictions' = <<>>
  /\ X' = <<>>
  /\ y' = <<>>
  /\ row_df' = <<>>
  /\ result' = <<>>
  /\ err' = NoError
  /\ UNCHANGED <<data, my_ratings, evals, cell>>

\* The for loop has a next row.
HasNext == i <= Len(IterRows(my_ratings))

\* The label of the row the next fold holds out.
HeldOut == IterRows(my_ratings)[i].album

\* Mutant of FoldX: the rows are taken from data, not from data_f.
FoldX_Unfilled == Drop(Loc(data, Index(my_ratings)), HeldOut)

\* X of the next fold.
FoldX == Drop(Loc(data_f, Index(my_ratings)), HeldOut)

\* y of the next fold.
FoldY == Drop(my_ratings, HeldOut)

\* row_df of the next fold.
FoldRow == Loc(data_f, <<HeldOut>>)

\* An exception leaves the loop body and the function: the locals are
\* dropped with the frame, nothing is returned.
Raise(e) ==
  /\ pc' = "raised"
  /\ err' = e
  /\ i' = i + 1
  /\ data_f' = <<>>
  /\ albums' = <<>>
  /\ predictions' = <<>>
  /\ X' = <<>>
  /\ y' = <<>>
  /\ row_df' = <<>>
  /\ UNCHANGED <<entry, arg_model, fill, result>>
  /\ UNCHANGED <<data, my_ratings, evals, cell>>

\* A fold whose data_f.loc[my_ratings.index] raises KeyError.
FoldKeyError ==
  /\ pc = "loop"
  /\ HasNext
  /\ LocRaises(data_f, Index(my_ratings))
  /\ Raise("KeyError")
  /\ UNCHANGED models

\* Mutant of FoldFitRaises: the exception is caught and the loop goes on.
FoldFitRaises_Caught ==
  /\ pc = "loop"
  /\ HasNext
  /\ ~LocRaises(data_f, Index(my_ratings))
  /\ err' = "FitError"
  /\ i' = i + 1
  /\ X' = FoldX
  /\ y' = FoldY
  /\ UNCHANGED <<entry, pc, arg_model, fill, data_f, albums, predictions, row_df, result>>
  /\ UNCHANGED <<caller, evals, cell>>

\* A fold whose model.fit(X, y) raises.
FoldFitRaises ==
  /\ pc = "loop"
  /\ HasNext
  /\ ~LocRaises(data_f, Index(my_ratings))
  /\ Raise("FitError")
  /\ UNCHANGED models

\* A fold whose model.predict(row_df) raises.
FoldPredictRaises ==
  /\ pc = "loop"
  /\ HasNext
  /\ ~LocRaises(data_f, Index(my_ratings))
  /\ ~FitMustRaise(FoldX)
  /\ models' = [models EXCEPT ![arg_model] = Fit(@, FoldX, FoldY)]
  /\ Raise("PredictError")

\* A fold that runs to its end and records its prediction.
FoldOk ==
  /\ pc = "loop"
  /\ HasNext
  /\ ~LocRaises(data_f, Index(my_ratings))
  /\ ~FitMustRaise(FoldX)
  /\ i' = i + 1
  /\ X' = FoldX
  /\ y' = FoldY
  /\ models' = [models EXCEPT ![arg_model] = Fit(@, FoldX, FoldY)]
  /\ row_df' = FoldRow
  /\ \E p \in PredValues :
       /\ albums' = Append(albums, HeldOut)
       /\ predictions' = Append(predictions, p)
  /\ UNCHANGED <<entry, pc, arg_model, fill, data_f, result, err>>
  /\ UNCHANGED <<data, my_ratings, evals, cell>>

\* The loop is exhausted: build, sort and return the result frame.
Return ==
  /\ pc = "loop"
  /\ ~HasNext
  /\ result' = SortValues(ResultFrame(albums, predictions))
  /\ pc' = "returned"
  /\ UNCHANGED <<entry, arg_model, fill, data_f, i, albums, predictions, X, y, row_df, err>>
  /\ UNCHANGED <<caller, evals, cell>>

\* ---------------------------------------------------------------- evaluate

\* evaluate(p, r)
Evaluate(p, r) ==
  LET df == Concat(p, r)
  IN /\ ev_predictions' = p
     /\ ev_ratings' = r
     /\ IF MetricRaises(df)
        THEN /\ ev_pc' = "raised"
             /\ UNCHANGED <<r2, rmse>>
        ELSE /\ ev_pc' = "returned"
             /\ r2' = R2Score(df)
             /\ rmse' = Rmse(df)

Next ==
  \/ \E m \in ModelIds, f \in Fills : Call(m, f)
  \/ FoldKeyError
  \/ FoldFitRaises
  \/ FoldPredictRaises
  \/ FoldOk
  \/ Return

Spec == Init /\ [][Next]_vars

\* evaluate on frames of the caller's own.
PredictionFrames ==
  UNION {{[j \in 1..Len(ks) |-> [album |-> ks[j], prediction |-> c[j]]] :
            c \in [1..Len(ks) -> EvalPredValues]} : ks \in KeySeqs}

ScoreFrames ==
  UNION {{[j \in 1..Len(ks) |-> [album |-> ks[j], SCORE |-> c[j]]] :
            c \in [1..Len(ks) -> EvalScoreValues]} : ks \in KeySeqs}

InitEval ==
  /\ data = <<>>
  /\ my_ratings = <<>>
  /\ models = NewModels
  /\ FrameIdle
  /\ EvalIdle
  /\ ev_predictions \in PredictionFrames
  /\ ev_ratings \in ScoreFrames
  /\ cell = "none"

EvaluateArgs ==
  /\ ev_pc = "idle"
  /\ Evaluate(ev_predictions, ev_ratings)
  /\ UNCHANGED <<caller, frame, cell>>

NextEval == EvaluateArgs

SpecEval == InitEval /\ [][NextEval]_vars

\* ------------------------------------------------------------ the notebook

\* The parameters of loocv_regression(data, my_ratings, model, fill).
Params == {"data", "my_ratings", "model", "fill"}

\* The cells of the notebook that run a leave-one-out regression, in order.
ModelCells == <<"A", "B", "C">>

\* The keyword arguments of each cell's call of loocv_regression:
\* loocv_regression(<frame>, my_ratings, verbose = False).
CallKeywords(c) == {"verbose"}

\* Python binds a call's keyword arguments when the function has a
\* parameter of each name (it has no **kwargs); otherwise it raises
\* TypeError before the body runs.
Binds(keywords) == keywords \subseteq Params

\* A top-to-bottom run has loaded the frames and cut them to the albums
\* both hold, in one common order, and stands before the Model A cell.
InitPipeline ==
  /\ \E ks \in KeySeqs :
       /\ data \in {f \in FeatureFrames : Index(f) = ks}
       /\ my_ratings \in {t \in TargetFrames : Index(t) = ks}
  /\ models = NewModels
  /\ FrameIdle
  /\ EvalIdle
  /\ ev_predictions = <<>>
  /\ ev_ratings = <<>>
  /\ cell = "A"

\* The run executes the call of the model cell it stands at: the call
\* enters the function when its arguments bind, and otherwise raises
\* TypeError, which ends the run.
RunModelCell ==
  /\ \E n \in 1..Len(ModelCells) : cell = ModelCells[n]
  /\ pc # "loop"
  /\ IF Binds(CallKeywords(cell))
     THEN Call("default", DefaultFill)
     ELSE /\ pc' = "raised"
          /\ err' = "TypeError"
          /\ cell' = "aborted"
          /\ UNCHANGED <<entry, arg_model, fill, data_f, i, albums, predictions, X, y, row_df, result>>
          /\ UNCHANGED <<caller, evals>>

NextPipeline == RunModelCell

SpecPipeline == InitPipeline /\ [][NextPipeline]_vars

\* ------------------------------------------------------------------ claims

\* At least one fold of the current call has run to its end.
FoldDone == pc \in {"loop", "returned"} /\ albums # <<>>

\* The label the last completed fold held out.
LastHeldOut == albums[Len(albums)]

\* The call has returned one prediction per target label: the label sets
\* are equal, no label is repeated, and the loop ran one fold per target row.
ExactlyOnePerKey ==
  /\ KeySet(result) = KeySet(my_ratings)
  /\ Len(result) = Len(my_ratings)
  /\ Cardinality(KeySet(result)) = Len(result)
  /\ i - 1 = Len(my_ratings)

\* C1 (as amended): for a target frame of at least two rows whose labels all
\* have a row in the feature frame, no fold fails on a label, every fold
\* can run to its end, and a call that has returned has returned exactly
\* one prediction per target label after one fold per target row.
C1_OnePredictionPerKey ==
  (Len(my_ratings) >= 2 /\ KeySet(my_ratings) \subseteq KeySet(data)) =>
    /\ err # "KeyError"
    /\ (pc = "loop" /\ HasNext) => ENABLED FoldOk
    /\ pc = "returned" => ExactlyOnePerKey

\* C1 (as stated): the same for every non-empty target frame.
C1_EveryNonEmptyTarget ==
  (my_ratings # <<>> /\ KeySet(my_ratings) \subseteq KeySet(data)) =>
    /\ err # "KeyError"
    /\ (pc = "loop" /\ HasNext) => ENABLED FoldOk
    /\ pc = "returned" => ExactlyOnePerKey

C1_Witness ==
  /\ pc = "returned"
  /\ Len(my_ratings) >= 3
  /\ Index(data) # Index(my_ratings)
  /\ Index(result) # Index(my_ratings)

\* C2: in every fold, the labels of the X and of the y passed to fit are
\* exactly the target labels without the held-out label, one row each.
C2_TrainingSetIsTargetMinusHeldOut ==
  FoldDone =>
    /\ KeySet(X) = KeySet(my_ratings) \ {LastHeldOut}
    /\ KeySet(y) = KeySet(my_ratings) \ {LastHeldOut}
    /\ Len(X) = Len(my_ratings) - 1
    /\ Len(y) = Len(my_ratings) - 1

C2_Witness ==
  /\ FoldDone
  /\ Len(albums) >= 2
  /\ Len(X) >= 1
  /\ KeySet(data) \ KeySet(my_ratings) # {}

\* C3: in every fold the estimator that predicts the held-out label holds
\* fitted state of that fold's training rows only.
C3_FreshModelPerFold ==
  FoldDone => models[arg_model].seen = KeySet(X)

\* C4: when a target label has no row in the feature frame, the call ends
\* with KeyError at the first fold: it records no prediction and returns
\* no result.
C4_MissingKeyRaises ==
  ~(KeySet(my_ratings) \subseteq KeySet(data)) =>
    /\ pc # "returned"
    /\ result = <<>>
    /\ albums = <<>>
    /\ pc = "raised" => err = "KeyError" /\ i = 2

C4_Witness ==
  /\ pc = "raised"
  /\ err = "KeyError"
  /\ Len(my_ratings) >= 2
  /\ my_ratings[1].album \in KeySet(data)
  /\ KeySet(my_ratings) \cap KeySet(data) # KeySet(my_ratings)

\* C5: when the target frame is empty, a call that has ended has ended
\* with an error.
C5_EmptyTargetRaises ==
  (my_ratings = <<>> /\ pc \in {"returned", "raised"}) => pc = "raised"

\* C7: when a call has returned, the caller's frames and every estimator
\* object are as they were when the call began.
C7_NoSideEffect ==
  pc = "returned" =>
    /\ data = entry.data
    /\ my_ratings = entry.my_ratings
    /\ models = entry.models

\* C8: once fit or predict has raised, the call has ended with that error:
\* no later fold runs, and no prediction, full or partial, is returned.
C8_FitErrorPropagates ==
  err \in {"FitError", "PredictError"} =>
    /\ pc = "raised"
    /\ result = <<>>
    /\ predictions = <<>>

C8_Witness ==
  /\ pc = "raised"
  /\ err = "FitError"
  /\ i >= 3
  /\ i <= Len(my_ratings)

\* C10: throughout the loop data_f is the caller's frame with every missing
\* entry replaced by `fill` and every other entry unchanged, and the
\* training rows and the held-out row of every fold are rows of it.
C10_FilledOnceBeforeLoop ==
  pc \in {"loop", "returned"} =>
    /\ Len(data_f) = Len(data)
    /\ \A j \in 1..Len(data) :
         /\ data_f[j].album = data[j].album
         /\ data[j].u1 = NaN => data_f[j].u1 = fill
         /\ data[j].u1 # NaN => data_f[j].u1 = data[j].u1
    /\ FoldDone =>
         /\ \A j \in 1..Len(X) : \E n \in 1..Len(data_f) : X[j] = data_f[n]
         /\ \A j \in 1..Len(row_df) : \E n \in 1..Len(data_f) : row_df[j] = data_f[n]
         /\ Len(row_df) = 1
         /\ row_df[1].album = LastHeldOut

C10_Witness ==
  /\ FoldDone
  /\ Len(albums) >= 2
  /\ fill # DefaultFill
  /\ row_df[1].u1 = fill
  /\ \E j \in 1..Len(X) : X[j].u1 = fill
  /\ \E j \in 1..Len(X) : X[j].u1 # fill

\* The joined frame evaluate computed its metrics on.
EvalFrame == Concat(ev_predictions, ev_ratings)

\* C6: when evaluate has ended on a non-empty ground truth whose values are
\* all the same, over the label set of the predictions, it has ended with
\* an error.
C6_DegenerateTargetRaises ==
  ( /\ ev_pc # "idle"
    /\ ev_ratings # <<>>
    /\ KeySet(ev_ratings) = KeySet(ev_predictions)
    /\ \A j \in 1..Len(ev_ratings) : ev_ratings[j].SCORE = ev_ratings[1].SCORE )
  => ev_pc = "raised"

\* C9: when evaluate has returned, the RMSE is >= 0, and it is 0 exactly
\* when every label's prediction equals its SCORE.
C9_RmseZeroIffExact ==
  ev_pc = "returned" =>
    /\ rmse >= 0
    /\ rmse = 0 <=>
         \A a \in 1..Len(ev_predictions), b \in 1..Len(ev_ratings) :
           ev_predictions[a].album = ev_ratings[b].album =>
             ev_predictions[a].prediction = ev_ratings[b].SCORE

C9_Witness ==
  /\ ev_pc = "returned"
  /\ rmse > 0
  /\ Len(ev_ratings) >= 3
  /\ Index(ev_predictions) # Index(ev_ratings)
  /\ Cardinality({j \in 1..Len(EvalFrame) :
                    EvalFrame[j].prediction # EvalFrame[j].SCORE}) = 1

\* C12: in every fold the X and the y passed to fit have the same length
\* and the same label at every position, and each row of X holds the (filled)
\* features of its label and each entry of y the SCORE of its label.
C12_TrainingRowsAligned ==
  FoldDone =>
    /\ Len(X) = Len(y)
    /\ \A j \in 1..Len(X) :
         /\ X[j].album = y[j].album
         /\ \E n \in 1..Len(data_f) : data_f[n] = X[j]
         /\ \E n \in 1..Len(my_ratings) : my_ratings[n] = y[j]

C12_Witness ==
  /\ FoldDone
  /\ Len(X) >= 2
  /\ Index(data) # Index(my_ratings)
  /\ X[1].u1 # X[2].u1
  /\ y[1].SCORE # y[2].SCORE

\* Every reordering of the rows of frame df.
Reorderings(df) ==
  {[j \in 1..Len(df) |-> df[f[j]]] :
     f \in {g \in [1..Len(df) -> 1..Len(df)] :
              \A a, b \in 1..Len(df) : g[a] = g[b] => a = b}}

\* C13: when evaluate has returned, the pair it returned is the pair the
\* metrics give on every reordering of the rows of either argument, among
\* them the predictions sorted by descending prediction.
C13_EvaluateIgnoresRowOrder ==
  ev_pc = "returned" =>
    /\ \A p \in Reorderings(ev_predictions) :
         LET df == Concat(p, ev_ratings)
         IN /\ ~MetricRaises(df)
            /\ R2Score(df) = r2
            /\ Rmse(df) = rmse
    /\ \A r \in Reorderings(ev_ratings) :
         LET df == Concat(ev_predictions, r)
         IN /\ ~MetricRaises(df)
            /\ R2Score(df) = r2
            /\ Rmse(df) = rmse
    /\ R2Score(Concat(SortValues(ev_predictions), ev_ratings)) = r2
    /\ Rmse(Concat(SortValues(ev_predictions), ev_ratings)) = rmse

C13_Witness ==
  /\ ev_pc = "returned"
  /\ Len(ev_ratings) >= 3
  /\ ev_predictions = SortValues(ev_predictions)
  /\ Index(ev_predictions) # Index(ev_ratings)
  /\ ev_predictions[1].prediction # ev_predictions[3].prediction
  /\ ev_ratings[1].SCORE # ev_ratings[3].SCORE
  /\ ~r2.nan
  /\ rmse > 0

\* C11: a top-to-bottom run never ends in a model cell: every call of
\* loocv_regression it makes is accepted by the function's signature, so
\* the run is not aborted before the full-data fit.
C11_PipelineRunsToEnd ==
  /\ cell # "aborted"
  /\ err # "TypeError"

=============================================================================
